---- MODULE Spec2Model ----
(***************************************************************************)
(* Model of the notebook fixed_effects.ipynb: a synthetic panel of people  *)
(* (ability, education level in 1990..1992), two reconstructions of the    *)
(* latent ability (PCA, factor analysis), an entity-level noise column,    *)
(* the melt to long format with the income column, and six regressions.    *)
(*                                                                         *)
(* A DataFrame is a function from column names to columns; a column is a   *)
(* tuple indexed 1..n (row i holds the DataFrame index i-1).  The long     *)
(* table people_melted is a sequence of records.  Reals are represented    *)
(* exactly: a regression coefficient is a fraction <<num, den>>, den > 0,  *)
(* and den = 0 marks a coefficient the normal equations do not determine.  *)
(***************************************************************************)
EXTENDS Integers, Sequences, FiniteSets, TLC

VARIABLES pc, rng, tape, draw_log, people, fa_memo, people_melted,
          mod, res, stdout, run, prev, config, error

vars == <<pc, rng, tape, draw_log, people, fa_memo, people_melted,
          mod, res, stdout, run, prev, config, error>>

(* ------------------------------ bounds -------------------------------- *)

\* Number of people of the model's panel (the notebook sets n_people = 100).
NPeople == 2

\* Values a draw of np.random.poisson(lam=5) takes in the model.
AbilityValues == {0, 1, 2}

\* Values a draw of np.random.poisson(lam=ability), ability > 0, takes.
PoissonValues == {0, 1}

\* Values a standard normal variate takes in the model.
NormalValues == {-1, 1}

\* Loading directions the factor analysis may settle on.
FactorDirections == {<<1, 1, 1>>, <<1, 2, 3>>}

(* ------------------------- program constants -------------------------- *)

\* The literals of the generator cell: n_people = 100 (NPeople in the
\* model), n_years = 3, lam=5.
Configured == [n_people |-> NPeople, n_years |-> 3, lam |-> 5]

\* The values the cells read: the globals n_people, n_years and the rate of
\* the ability draw, as the generator cell sets them.
n_people == config.n_people
n_years == config.n_years
ability_lam == config.lam
seed_value == 6429
noise_sd == 0
true_intercept == 4
true_coefficient == 3

\* The period columns, in the order the generator cell creates them.
Years == <<"1990", "1991", "1992">>

\* The columns of people in the order the notebook inserts them.
ColumnOrder ==
    <<"person", "ability", "1990", "1991", "1992", "pca", "factor", "noise">>

\* id_vars of the melt.
\* (the noise column left out of the id columns)
id_vars_without_noise == {"person", "ability", "pca", "factor"}
id_vars == {"person", "ability", "pca", "noise", "factor"}

\* The order in which the notebook's statements draw from np.random.
DrawOrder == <<"ability", "1990", "1991", "1992", "noise", "income">>

(* --------------------------- arithmetic ------------------------------- *)

Abs(x) == IF x < 0 THEN -x ELSE x

\* Greatest common divisor of |a| and |b| (0 when both are 0).
RECURSIVE Gcd(_, _)
Gcd(a, b) == IF b = 0 THEN Abs(a) ELSE Gcd(Abs(b), Abs(a) % Abs(b))

\* Sum of the first n entries of s, and of the entrywise products of u, v.
RECURSIVE SumTo(_, _)
SumTo(s, n) == IF n = 0 THEN 0 ELSE s[n] + SumTo(s, n - 1)
SeqSum(s) == SumTo(s, Len(s))

RECURSIVE DotTo(_, _, _)
DotTo(u, v, n) == IF n = 0 THEN 0 ELSE u[n] * v[n] + DotTo(u, v, n - 1)
Dot(u, v) == DotTo(u, v, Len(u))

\* n * sum(u v) - sum(u) sum(v): n^2 times the covariance of two columns.
Sxy(u, v) == Len(u) * Dot(u, v) - SeqSum(u) * SeqSum(v)

\* The fraction num/den with a positive denominator, in lowest terms;
\* <<0, 0>> when den = 0 (undetermined).
Frac(num, den) ==
    IF den = 0 THEN <<0, 0>>
    ELSE LET g == Gcd(num, den)
             s == IF den < 0 THEN -1 ELSE 1
         IN  <<s * (num \div g), s * (den \div g)>>

Determined(q) == q[2] # 0
FracEq(q, k) == Determined(q) /\ q[1] = k * q[2]
FracLess(p, q) == Determined(p) /\ Determined(q) /\ p[1] * q[2] < q[1] * p[2]

(* ---------------------- the random generator -------------------------- *)

\* np.random.seed(s): the global generator restarts the stream of seed s.
seed_skipped(r, s) == r
seed(r, s) == [seed |-> s, seeds |-> r.seeds + 1, pos |-> 0]

\* The generator of a fresh kernel: seeded from the operating system.
FreshGenerator == [seed |-> 0, seeds |-> 0, pos |-> 0]

\* v is a vector of n variates the generator may return next, each in S:
\* under seed_value the stream is the one recorded on tape as far as it has
\* been produced before, and any values beyond it.
Drawn(v, n, S) ==
    /\ v \in [1..n -> S]
    /\ rng.seed = seed_value =>
           \A k \in 1..n : rng.pos + k <= Len(tape) => v[k] = tape[rng.pos + k]

\* The generator and the tape after n variates v have been handed out.
Consume(v, n, what) ==
    /\ rng' = [rng EXCEPT !.pos = rng.pos + n]
    /\ tape' = IF rng.seed = seed_value
               THEN [k \in 1..(IF Len(tape) > rng.pos + n THEN Len(tape)
                               ELSE rng.pos + n) |->
                        IF k <= Len(tape) THEN tape[k] ELSE v[k - rng.pos]]
               ELSE tape
    /\ draw_log' = Append(draw_log, what)

\* Support of np.random.poisson(lam): lam = 0 gives 0, otherwise any count.
PoissonSupport(lam, vals) == IF lam = 0 THEN {0} ELSE vals

\* Support of np.random.normal(loc, scale): loc + scale * z.
NormalSupport(loc, scale) == {loc + scale * z : z \in NormalValues}

(* ------------------------------ tables -------------------------------- *)

NoFrame == << >>

\* No exception has been raised; an exception stops the execution at the
\* statement that raised it.
NoError == << >>
Raises(type, statement) ==
    /\ pc' = "error"
    /\ error' = [type |-> type, statement |-> statement]
Rows == 1..n_people

\* (the reconstruction centring its input in place: the first period
\* column overwritten when the pca column is stored)
AddColumn_inplace(df, name, col) ==
    (name :> col)
       @@ [c \in DOMAIN df |-> IF name = "pca" /\ c = "1990" THEN col ELSE df[c]]
\* people[name] = col
AddColumn(df, name, col) == (name :> col) @@ df

(* ------------------------------- Init --------------------------------- *)

Init ==
    /\ pc = "seed"
    /\ rng = FreshGenerator
    /\ tape = << >>
    /\ draw_log = << >>
    /\ people = NoFrame
    /\ fa_memo = << >>
    /\ people_melted = << >>
    /\ mod = << >>
    /\ res = << >>
    /\ stdout = << >>
    /\ run = 1
    /\ prev = << >>
    /\ config = Configured
    /\ error = NoError

(* ------------------------ the generator cell -------------------------- *)

\* np.random.seed(6429)
Seed ==
    /\ pc = "seed"
    /\ rng' = seed(rng, seed_value)
    /\ pc' = "people"
    /\ UNCHANGED <<tape, draw_log, people, fa_memo, people_melted, mod, res,
                   stdout, run, prev, config, error>>

\* people = DataFrame({person: arange(n_people), ability: poisson(5, n_people)})
NewPeople(ability) ==
    AddColumn(AddColumn(NoFrame, "person", [i \in Rows |-> i - 1]),
              "ability", ability)

\* np.arange accepts any n_people (a non-positive one gives no rows);
\* np.random.poisson raises ValueError on a negative size or a negative lam
\* and accepts lam = 0 and size = 0.
MakePeople ==
    /\ pc = "people"
    /\ IF n_people >= 0 /\ ability_lam >= 0
       THEN /\ \E v \in [Rows -> AbilityValues] :
                  /\ Drawn(v, n_people,
                           PoissonSupport(ability_lam, AbilityValues))
                  /\ Consume(v, n_people, "ability")
                  /\ people' = NewPeople(v)
            /\ pc' = "1990"
            /\ UNCHANGED error
       ELSE /\ Raises("ValueError", "np.random.poisson")
            /\ UNCHANGED <<rng, tape, draw_log, people>>
    /\ UNCHANGED <<fa_memo, people_melted, mod, res, stdout, run, prev,
                   config>>

\* The period column of year index y given the fresh draws v:
\* people["1990"] = draw; people["1991"] = people["1990"] + draw; ...
PeriodColumn_subtracting(df, y, v) ==
    IF y = 1 THEN v ELSE [i \in Rows |-> df[Years[y - 1]][i] - v[i]]
PeriodColumn(df, y, v) ==
    IF y = 1 THEN v ELSE [i \in Rows |-> df[Years[y - 1]][i] + v[i]]

DrawYear(y) ==
    /\ pc = Years[y]
    /\ \E v \in [Rows -> PoissonValues] :
          /\ \A i \in Rows :
                v[i] \in PoissonSupport(people["ability"][i], PoissonValues)
          /\ Drawn(v, n_people, PoissonValues)
          /\ Consume(v, n_people, Years[y])
          /\ people' = AddColumn(people, Years[y], PeriodColumn(people, y, v))
    /\ pc' = IF y < Len(Years) THEN Years[y + 1] ELSE "reconstruct"
    /\ UNCHANGED <<fa_memo, people_melted, mod, res, stdout, run, prev, config, error>>

(* ---------------------- the reconstruction cell ----------------------- *)

\* X = people[["1990", "1991", "1992"]]: one row of period values per person.
PeriodMatrix(df) ==
    [i \in Rows |-> [y \in 1..Len(Years) |-> df[Years[y]][i]]]

\* Row i of X minus the column means, times n (kept integral).
Centred(X) ==
    [i \in DOMAIN X |->
        [y \in 1..Len(Years) |->
            Len(X) * X[i][y] - SeqSum([j \in DOMAIN X |-> X[j][y]])]]

\* Largest education level a panel of the model holds, and the integer
\* directions (components -GridMax..GridMax) the principal axis is sought in.
Max(S) == CHOOSE x \in S : \A y \in S : y <= x
GridMax == Len(Years) * Max(PoissonValues)
GridSide == 2 * GridMax + 1
GridSize == GridSide * GridSide * GridSide
Direction(k) ==
    <<(k % GridSide) - GridMax,
      ((k \div GridSide) % GridSide) - GridMax,
      (k \div (GridSide * GridSide)) - GridMax>>

\* n^2 times the covariance matrix of X (C the centred rows): entry [y][z].
RECURSIVE ColumnProduct(_, _, _, _)
ColumnProduct(C, y, z, i) ==
    IF i = 0 THEN 0 ELSE C[i][y] * C[i][z] + ColumnProduct(C, y, z, i - 1)

Covariance(C) ==
    [y \in 1..Len(Years) |->
        [z \in 1..Len(Years) |-> ColumnProduct(C, y, z, Len(C))]]

\* Variance of the projection on direction w as the Rayleigh quotient
\* <<w' M w, w' w>>.
Rayleigh(M, w) ==
    <<M[1][1] * w[1] * w[1] + M[2][2] * w[2] * w[2] + M[3][3] * w[3] * w[3]
        + 2 * (M[1][2] * w[1] * w[2] + M[1][3] * w[1] * w[3]
               + M[2][3] * w[2] * w[3]),
      w[1] * w[1] + w[2] * w[2] + w[3] * w[3]>>

\* Of two candidates <<direction, quotient>> the one of larger quotient (the
\* first on a tie; the zero direction never wins).
Better(a, b) ==
    IF b[2][2] = 0 THEN a
    ELSE IF a[2][2] = 0 THEN b
    ELSE IF b[2][1] * a[2][2] > a[2][1] * b[2][2] THEN b ELSE a

\* The best candidate among Direction(lo..hi), found by halving the range.
RECURSIVE BestDirection(_, _, _)
BestDirection(M, lo, hi) ==
    IF lo = hi
    THEN CHOOSE c \in {<<w, Rayleigh(M, w)>> : w \in {Direction(lo)}} : TRUE
    ELSE LET mid == (lo + hi) \div 2
             a == BestDirection(M, lo, mid)
             b == BestDirection(M, mid + 1, hi)
         IN  Better(a, b)

\* The first principal axis of the centred rows C: exact whenever the rows
\* are multiples of one grid direction, the nearest grid direction otherwise.
\* Direction(k) and Direction(GridSize - 1 - k) are opposite and span the
\* same axis, so the first half of the grid is searched (the sign of the
\* scores is settled by svd_flip).
PrincipalAxis(C) ==
    LET M == CHOOSE m \in {Covariance(C)} : TRUE
    IN  BestDirection(M, 0, (GridSize - 1) \div 2 - 1)[1]

\* The projections of the centred rows on direction w.
Projected(C, w) ==
    [i \in DOMAIN C |-> C[i][1] * w[1] + C[i][2] * w[2] + C[i][3] * w[3]]

\* Scores of the rows along direction w, up to a positive scale factor
\* (the common divisor of the scores is divided out).
RECURSIVE GcdAll(_)
GcdAll(s) == IF s = << >> THEN 0 ELSE Gcd(Head(s), GcdAll(Tail(s)))

Scores(C, w) ==
    LET p == Projected(C, w)
        g == GcdAll(p)
    IN  IF g = 0 THEN p ELSE [i \in DOMAIN p |-> p[i] \div g]

\* svd_flip: the sign that makes the score of largest magnitude (the first
\* of them) positive.
Flipped(p) ==
    LET big == CHOOSE i \in DOMAIN p :
                   /\ \A j \in DOMAIN p : Abs(p[j]) <= Abs(p[i])
                   /\ \A j \in DOMAIN p : Abs(p[j]) = Abs(p[i]) => i <= j
    IN  IF p[big] < 0 THEN [i \in DOMAIN p |-> -p[i]] ELSE p

\* PCA(n_components=1).fit_transform(X)
pca_fit_transform(X) ==
    LET C == Centred(X)
    IN  CHOOSE s \in {Flipped(p) : p \in {Scores(C, PrincipalAxis(C))}} : TRUE

\* FactorAnalysis(n_components=1).fit_transform(X) with loading direction v.
factor_fit_transform(X, v) == Scores(Centred(X), v)

\* The factor analysis is a function of X: the direction it settled on for
\* an X it has fitted before is the one it settles on again.
FactorAxisOk(X, v) ==
    /\ v \in FactorDirections
    /\ (fa_memo # << >> /\ fa_memo.X = X) => v = fa_memo.axis

\* sklearn refuses an X without rows (ValueError, at least one sample is
\* required).
Reconstruct ==
    /\ pc = "reconstruct"
    /\ IF n_people >= 1
       THEN /\ \E X \in {PeriodMatrix(people)} :
               \E with_pca \in
                     {AddColumn(people, "pca", pca_fit_transform(X))} :
                   \E v \in FactorDirections :
                      /\ FactorAxisOk(X, v)
                      /\ fa_memo' = [X |-> X, axis |-> v]
                      /\ people' = AddColumn(with_pca, "factor",
                                             factor_fit_transform(X, v))
            /\ pc' = "noise"
            /\ UNCHANGED error
       ELSE /\ Raises("ValueError", "pca.fit_transform")
            /\ UNCHANGED <<people, fa_memo>>
    /\ UNCHANGED <<rng, tape, draw_log, people_melted, mod, res, stdout,
                   run, prev, config>>

\* people["noise"] = np.random.normal(0, 1, n_people)
DrawNoise ==
    /\ pc = "noise"
    /\ \E v \in [Rows -> NormalSupport(0, 1)] :
          /\ Drawn(v, n_people, NormalSupport(0, 1))
          /\ Consume(v, n_people, "noise")
          /\ people' = AddColumn(people, "noise", v)
    /\ pc' = "melt"
    /\ UNCHANGED <<fa_memo, people_melted, mod, res, stdout, run, prev, config, error>>

(* --------------------------- the melt cell ---------------------------- *)

\* The value columns of a melt: every column that is not an id column.
value_vars(df, ids) ==
    SelectSeq(ColumnOrder, LAMBDA c : c \in DOMAIN df /\ c \notin ids)

\* The value an id column carries on the records of row i.
IdValue_noise_rotated(df, c, i) ==
    IF c = "noise" THEN df[c][(i % Len(df[c])) + 1] ELSE df[c][i]
IdValue_ability_rotated(df, c, i) ==
    IF c = "ability" THEN df[c][(i % Len(df[c])) + 1] ELSE df[c][i]
IdValue(df, c, i) == df[c][i]

\* df.melt(id_vars=ids).rename({"variable": "year", "value": "education_level"}):
\* one record per (value column, row), value columns outermost.
melt(df, ids) ==
    LET vv == value_vars(df, ids)
        n == Len(df["person"])
    IN  [r \in 1..(Len(vv) * n) |->
            LET y == ((r - 1) \div n) + 1
                i == ((r - 1) % n) + 1
            IN  [person |-> IdValue(df, "person", i),
                 ability |-> IdValue(df, "ability", i),
                 pca |-> IdValue(df, "pca", i),
                 noise |-> IdValue(df, "noise", i),
                 factor |-> IdValue(df, "factor", i),
                 year |-> vv[y],
                 education_level |-> df[vv[y]][i]]]

\* .eval("income = 4 + 3 * education_level + ability")
income_of_swapped(education_level, ability) ==
    true_intercept + true_coefficient * ability + education_level
income_of(education_level, ability) ==
    true_intercept + true_coefficient * education_level + ability

eval_income(t) ==
    [r \in DOMAIN t |->
        [income |-> income_of(t[r].education_level, t[r].ability)] @@ t[r]]

\* .assign(income = df["income"] + v)
assign_income(t, v) ==
    [r \in DOMAIN t |-> [t[r] EXCEPT !.income = t[r].income + v[r]]]

\* np.random.normal raises ValueError on a negative size; the sum of the
\* income column and a vector of another length (here: of no entries) raises
\* ValueError after the vector has been drawn.
Melt ==
    /\ pc = "melt"
    /\ LET t == eval_income(melt(people, id_vars))
           n == n_people * n_years
       IN  IF n < 0
           THEN /\ Raises("ValueError", "np.random.normal")
                /\ UNCHANGED <<rng, tape, draw_log, people_melted>>
           ELSE \E v \in [1..n -> NormalSupport(0, noise_sd)] :
                   /\ Drawn(v, n, NormalSupport(0, noise_sd))
                   /\ Consume(v, n, "income")
                   /\ IF n = Len(t)
                      THEN /\ people_melted' = assign_income(t, v)
                           /\ pc' = "fit_a"
                           /\ UNCHANGED error
                      ELSE /\ Raises("ValueError", "assign")
                           /\ UNCHANGED people_melted
    /\ UNCHANGED <<people, fa_memo, mod, res, stdout, run, prev, config>>

(* ------------------------- the regressions ---------------------------- *)

Column(t, c) == [r \in 1..Len(t) |-> t[r][c]]

\* The six models of the notebook, in cell order: (a) .. (f).
Models ==
    << [estimator |-> "ols", formula |-> "income ~ education_level + ability",
        exog |-> <<"education_level", "ability">>],
       [estimator |-> "ols", formula |-> "income ~ education_level",
        exog |-> <<"education_level">>],
       [estimator |-> "mixedlm", formula |-> "income ~ education_level",
        exog |-> <<"education_level">>],
       [estimator |-> "ols", formula |-> "income ~ education_level + pca",
        exog |-> <<"education_level", "pca">>],
       [estimator |-> "ols", formula |-> "income ~ education_level + factor",
        exog |-> <<"education_level", "factor">>],
       [estimator |-> "ols", formula |-> "income ~ education_level + noise",
        exog |-> <<"education_level", "noise">>] >>

\* (the mixed-model cell executed again after regression (d))
FitPc_rerun == <<"fit_a", "fit_b", "fit_c", "fit_d", "fit_c", "fit_f">>
FitPc == <<"fit_a", "fit_b", "fit_c", "fit_d", "fit_e", "fit_f">>

\* (the slope inverted: var(x) over cov(x, y))
ols1_inverted(y, x) ==
    LET slope == Frac(Sxy(x, x), Sxy(x, y))
    IN  [Intercept |-> Frac(slope[2] * SeqSum(y) - slope[1] * SeqSum(x),
                            Len(y) * slope[2]),
         x1 |-> slope]

\* Least squares of y on an intercept and one regressor x.
ols1(y, x) ==
    LET slope == Frac(Sxy(x, y), Sxy(x, x))
    IN  [Intercept |-> Frac(slope[2] * SeqSum(y) - slope[1] * SeqSum(x),
                            Len(y) * slope[2]),
         x1 |-> slope]

\* (the two slopes exchanged)
ols2_slopes_exchanged(y, x, q) ==
    LET sxx == Sxy(x, x)
        sqq == Sxy(q, q)
        sxq == Sxy(x, q)
        det == sxx * sqq - sxq * sxq
        nx == sqq * Sxy(x, y) - sxq * Sxy(q, y)
        nq == sxx * Sxy(q, y) - sxq * Sxy(x, y)
    IN  [Intercept |-> Frac(det * SeqSum(y) - nq * SeqSum(x) - nx * SeqSum(q),
                            Len(y) * det),
         x1 |-> Frac(nq, det),
         x2 |-> Frac(nx, det)]

\* Least squares of y on an intercept and two regressors x, q: the normal
\* equations solved by Cramer's rule.  When they are singular statsmodels
\* returns a minimum-norm solution, which is not computed here: of it only
\* the slope that is still unique is reported (the other regressor being
\* constant over the records), the rest is marked <<0, 0>>.
ols2(y, x, q) ==
    LET sxx == Sxy(x, x)
        sqq == Sxy(q, q)
        sxq == Sxy(x, q)
        sxy == Sxy(x, y)
        sqy == Sxy(q, y)
        det == sxx * sqq - sxq * sxq
        nx == sqq * sxy - sxq * sqy
        nq == sxx * sqy - sxq * sxy
        g == Gcd(det, Gcd(nx, nq))
        d1 == IF g = 0 THEN 0 ELSE det \div g
        x1 == IF g = 0 THEN 0 ELSE nx \div g
        q1 == IF g = 0 THEN 0 ELSE nq \div g
    IN  IF det # 0
        THEN [Intercept |->
                 Frac(d1 * SeqSum(y) - x1 * SeqSum(x) - q1 * SeqSum(q),
                      Len(y) * d1),
              x1 |-> Frac(x1, d1),
              x2 |-> Frac(q1, d1)]
        ELSE [Intercept |-> <<0, 0>>,
              x1 |-> IF sqq = 0 THEN Frac(sxy, sxx) ELSE <<0, 0>>,
              x2 |-> IF sxx = 0 THEN Frac(sqy, sqq) ELSE <<0, 0>>]

\* (the second regressor of the formula dropped from the fit)
ols_second_dropped(data, exog) ==
    LET f == ols1(Column(data, "income"), Column(data, exog[1]))
    IN  IF Len(exog) = 1
        THEN ("Intercept" :> f.Intercept) @@ (exog[1] :> f.x1)
        ELSE ("Intercept" :> f.Intercept) @@ (exog[1] :> f.x1)
                @@ (exog[2] :> <<0, 1>>)

\* smf.ols(formula, data).fit().params, by regressor name.
ols(data, exog) ==
    LET y == Column(data, "income")
    IN  IF Len(exog) = 1
        THEN LET f == ols1(y, Column(data, exog[1]))
             IN  ("Intercept" :> f.Intercept) @@ (exog[1] :> f.x1)
        ELSE LET f == ols2(y, Column(data, exog[1]), Column(data, exog[2]))
             IN  ("Intercept" :> f.Intercept) @@ (exog[1] :> f.x1)
                    @@ (exog[2] :> f.x2)

\* The records of one group, in table order.
GroupRows(data, g) == SelectSeq(data, LAMBDA r : r.person = g)

\* Sum over the groups of the within-group cross product of columns u, v
\* (times the group size; the melt gives every person n_years records).
RECURSIVE Within(_, _, _, _)
Within(data, u, v, groups) ==
    IF groups = {} THEN 0
    ELSE LET g == CHOOSE h \in groups : TRUE
             rows == GroupRows(data, g)
         IN  Sxy(Column(rows, u), Column(rows, v))
                + Within(data, u, v, groups \ {g})

\* (the groups ignored: the pooled least-squares fit)
mixedlm_pooled(data, exog) ==
    LET f == ols1(Column(data, "income"), Column(data, exog[1]))
    IN  ("Intercept" :> f.Intercept) @@ (exog[1] :> f.x1)

\* smf.mixedlm(formula, data, groups=data["person"]).fit().params for income
\* without residual noise: the random-intercept estimate at residual variance
\* 0 is the within-person (fixed effects) slope, the one the commented-out
\* least squares on person dummies computes.  Without any within-person
\* variation of the regressor only the variation between persons is left,
\* and the slope is the pooled one.
mixedlm(data, exog) ==
    LET groups == {data[r].person : r \in 1..Len(data)}
        y == Column(data, "income")
        x == Column(data, exog[1])
        wxx == Within(data, exog[1], exog[1], groups)
        slope == IF wxx # 0
                 THEN Frac(Within(data, exog[1], "income", groups), wxx)
                 ELSE Frac(Sxy(x, y), Sxy(x, x))
    IN  ("Intercept" :> Frac(slope[2] * SeqSum(y) - slope[1] * SeqSum(x),
                             Len(y) * slope[2]))
           @@ (exog[1] :> slope)

fit(m, data) ==
    [formula |-> m.formula,
     estimator |-> m.estimator,
     nobs |-> Len(data),
     params |-> IF m.estimator = "ols" THEN ols(data, m.exog)
                ELSE mixedlm(data, m.exog)]

\* One regression cell:
\*   mod = smf.<estimator>(formula, data=people_melted); res = mod.fit()
\*   print(res.summary())
FitCell(k) ==
    /\ pc = FitPc[k]
    /\ mod' = Models[k]
    /\ res' = fit(Models[k], people_melted)
    /\ stdout' = Append(stdout, res')
    /\ pc' = IF k < Len(Models) THEN FitPc[k + 1] ELSE "done"
    /\ UNCHANGED <<rng, tape, draw_log, people, fa_memo, people_melted,
                   run, prev, config, error>>

\* Kernel restart and "run all": a second execution of the notebook.  The
\* program state is that of a fresh kernel; what the first run produced is
\* kept aside in prev for comparison.  The stream of seed_value (tape) and
\* the factor analysis (fa_memo) are the same functions in every run.
MaxRuns == 2

Restart ==
    /\ pc = "done"
    /\ run < MaxRuns
    /\ prev' = [people |-> people, people_melted |-> people_melted,
                stdout |-> stdout]
    /\ run' = run + 1
    /\ pc' = "seed"
    /\ rng' = FreshGenerator
    /\ draw_log' = << >>
    /\ people' = NoFrame
    /\ people_melted' = << >>
    /\ mod' = << >>
    /\ res' = << >>
    /\ stdout' = << >>
    /\ error' = NoError
    /\ UNCHANGED <<tape, fa_memo, config>>

Next ==
    \/ Seed
    \/ MakePeople
    \/ \E y \in 1..Len(Years) : DrawYear(y)
    \/ Reconstruct
    \/ DrawNoise
    \/ Melt
    \/ \E k \in 1..Len(Models) : FitCell(k)

\* One execution of the notebook.
Spec == Init /\ [][Next]_vars

\* The notebook with the literals of the generator cell edited: each of
\* n_people, n_years and lam is the configured value, 0 or -1.
Configurations ==
    [n_people : {Configured.n_people, 0, -1},
     n_years : {Configured.n_years, 0, -1},
     lam : {Configured.lam, 0, -1}]

InitConfig ==
    /\ pc = "seed"
    /\ rng = FreshGenerator
    /\ tape = << >>
    /\ draw_log = << >>
    /\ people = NoFrame
    /\ fa_memo = << >>
    /\ people_melted = << >>
    /\ mod = << >>
    /\ res = << >>
    /\ stdout = << >>
    /\ run = 1
    /\ prev = << >>
    /\ config \in Configurations
    /\ error = NoError

SpecConfig == InitConfig /\ [][Next]_vars

\* Executions of the notebook, one after the other.
NextRerun == Next \/ Restart

SpecRerun == Init /\ [][NextRerun]_vars

(* ======================= properties of the panel ====================== *)

\* Position on the tape of the variate drawn for row i by the k-th drawing
\* statement of the generator and reconstruction cells (k = 1: ability,
\* 2..4: the periods, 5: noise); the outcome noise of record r follows.
TapeAt(k, i) == (k - 1) * n_people + i
OutcomeNoiseAt(r) == 5 * n_people + r

HasColumn(c) == c \in DOMAIN people
Melted == people_melted # << >>

\* C1: for every person the education level never decreases from one
\* period to the next, 1990 <= 1991 <= 1992: each later period is the
\* period before plus the non-negative variate drawn for that person by
\* that period's statement (0 when the person's ability is 0).
C1_NonDecreasing ==
    \A y \in 1..(Len(Years) - 1) :
        HasColumn(Years[y + 1]) =>
            \A i \in Rows :
                /\ people[Years[y]][i] <= people[Years[y + 1]][i]
                /\ people[Years[y + 1]][i] - people[Years[y]][i]
                      = tape[TapeAt(y + 2, i)]
                /\ tape[TapeAt(y + 2, i)] >= 0
                /\ people["ability"][i] = 0 =>
                      people[Years[y + 1]][i] = people[Years[y]][i]

\* C1 witness: the three periods are generated, one person's level rose
\* between two periods and one person's level stayed.
C1_Witness ==
    /\ HasColumn("1992")
    /\ \E i \in Rows : people["1990"][i] < people["1991"][i]
    /\ \E i \in Rows : people["1991"][i] = people["1992"][i]

\* C2: after the melt every record of a person carries the ability drawn
\* for that person by the generator, so it is the same on all the person's
\* records.
C2_AbilityConstant ==
    Melted =>
        /\ \A r \in 1..Len(people_melted) :
              /\ people_melted[r].ability
                    = people["ability"][people_melted[r].person + 1]
              /\ people_melted[r].ability
                    = tape[TapeAt(1, people_melted[r].person + 1)]
        /\ \A r, q \in 1..Len(people_melted) :
              people_melted[r].person = people_melted[q].person =>
                  people_melted[r].ability = people_melted[q].ability

\* C2 witness: the long table exists and two people differ in ability.
C2_Witness ==
    /\ Melted
    /\ \E r, q \in 1..Len(people_melted) :
          people_melted[r].ability # people_melted[q].ability

\* C3: every record's income is 4 + 3 * education_level + ability plus the
\* outcome-noise variate drawn for that record; with noise_sd = 0 the
\* income is exactly 4 + 3 * education_level + ability.
C3_Income ==
    \A r \in 1..Len(people_melted) :
        LET rec == people_melted[r]
        IN  /\ rec.income = 4 + 3 * rec.education_level + rec.ability
                               + tape[OutcomeNoiseAt(r)]
            /\ noise_sd = 0 =>
                  rec.income = 4 + 3 * rec.education_level + rec.ability

\* C3 witness: a record with positive education level and ability, whose
\* education level differs from its ability.
C3_Witness ==
    \E r \in 1..Len(people_melted) :
        /\ people_melted[r].education_level > 0
        /\ people_melted[r].ability > 0
        /\ people_melted[r].education_level # people_melted[r].ability

(* ===================== properties of the regressions ================== *)

\* The k-th regression cell has just printed its report: stdout[k] is the
\* latest entry.  The cells after it only append to stdout and leave the
\* tables alone, so what holds of stdout[k] here holds of it from then on.
Reported(k) == Len(stdout) = k
Estimate(k, name) == stdout[k].params[name]

Education == Column(people_melted, "education_level")
Ability == Column(people_melted, "ability")
Income == Column(people_melted, "income")

\* The columns 1, u, v are linearly independent over the records.
Independent(u, v) == Sxy(u, u) * Sxy(v, v) - Sxy(u, v) * Sxy(u, v) # 0

C5_NaiveBiasedUp ==
    (Reported(2) /\ noise_sd = 0) =>
        LET b == Estimate(2, "education_level")
            cov == Sxy(Education, Ability)
            var == Sxy(Education, Education)
        IN  /\ var # 0 => /\ Determined(b)
                          /\ b[1] * var = (3 * var + cov) * b[2]
            /\ cov > 0 => /\ Determined(b)
                          /\ b[1] > 3 * b[2]

\* C5 witness: the naive regression is reported on a panel where ability and
\* education level are positively correlated.
C5_Witness ==
    /\ Reported(2)
    /\ stdout[2].formula = "income ~ education_level"
    /\ Sxy(Education, Ability) > 0

\* p lies strictly between the fractions a and b, in either order.
StrictlyBetween(p, a, b) ==
    \/ FracLess(a, p) /\ FracLess(p, b)
    \/ FracLess(b, p) /\ FracLess(p, a)

Reconstruction(k) == Column(people_melted, Models[k].exog[2])

SamePerson(r, q) == people_melted[r].person = people_melted[q].person

\* Some person's education level differs between two of the person's records.
WithinVariation ==
    \E r, q \in 1..Len(people_melted) :
        /\ SamePerson(r, q)
        /\ people_melted[r].education_level # people_melted[q].education_level

C9_NoiseEntityLevel ==
    /\ HasColumn("noise") =>
          /\ Len(people["noise"]) = n_people
          /\ \A i \in Rows : people["noise"][i] = tape[TapeAt(5, i)]
    /\ pc = "melt" => rng.pos = 5 * n_people
    /\ Melted =>
          /\ \A r \in 1..Len(people_melted) :
                people_melted[r].noise
                   = people["noise"][people_melted[r].person + 1]
          /\ \A r, q \in 1..Len(people_melted) :
                SamePerson(r, q) =>
                    people_melted[r].noise = people_melted[q].noise

\* C9 witness: the long table exists and two people differ in noise.
C9_Witness ==
    /\ Melted
    /\ \E r, q \in 1..Len(people_melted) :
          people_melted[r].noise # people_melted[q].noise

(* ====================== properties of the generator =================== *)

IsPrefix(s, t) == Len(s) <= Len(t) /\ \A k \in 1..Len(s) : s[k] = t[k]

\* Variates handed out by the drawing statements of log: n_people each,
\* n_people * n_years for the outcome noise.
RECURSIVE VariatesOf(_)
VariatesOf(log) ==
    IF log = << >> THEN 0
    ELSE (IF Head(log) = "income" THEN n_people * n_years ELSE n_people)
            + VariatesOf(Tail(log))

\* C10: in every execution the generator is seeded exactly once, before any
\* draw, and is consumed sequentially in the order ability, 1990, 1991,
\* 1992, noise, income; a second execution with the same seed builds the
\* same wide table, the same long table and the same reports.
C10_Reproducible ==
    /\ rng.seeds <= 1
    /\ draw_log # << >> => (rng.seeds = 1 /\ rng.seed = seed_value)
    /\ IsPrefix(draw_log, DrawOrder)
    /\ rng.pos = VariatesOf(draw_log)
    /\ run > 1 =>
          /\ \A c \in DOMAIN people : people[c] = prev.people[c]
          /\ Melted => people_melted = prev.people_melted
          /\ IsPrefix(stdout, prev.stdout)
          /\ pc = "done" =>
                /\ people = prev.people
                /\ people_melted = prev.people_melted
                /\ stdout = prev.stdout

\* C10 witness: a second execution has finished, on a panel whose people
\* differ in ability, in education level and in noise.
C10_Witness ==
    /\ run = 2
    /\ pc = "done"
    /\ \E i, j \in Rows :
          /\ people["ability"][i] # people["ability"][j]
          /\ people["1992"][i] # people["1992"][j]
          /\ people["noise"][i] # people["noise"][j]

(* ===================== properties of the configuration ================ *)

\* A configuration with a non-positive count or rate.
InvalidConfiguration == n_people <= 0 \/ n_years <= 0 \/ ability_lam <= 0

\* C11: an invalid configuration (a non-positive n_people, n_years or lam)
\* is rejected before generation begins: no statement draws from the
\* generator, no table is built, and the only error raised is of the kind
\* "invalid configuration".
C11_RejectedBeforeGeneration ==
    InvalidConfiguration =>
        /\ draw_log = << >>
        /\ rng.pos = 0
        /\ people = NoFrame
        /\ error # NoError => error.type = "invalid configuration"

(* ======================== properties of the layout ==================== *)

\* The period columns people holds.
PeriodColumns == {c \in DOMAIN people : \E y \in DOMAIN Years : c = Years[y]}

\* The records of person i (DataFrame index i - 1) in period column c.
RecordsOf(i, c) ==
    {r \in 1..Len(people_melted) :
        people_melted[r].person = i - 1 /\ people_melted[r].year = c}

\* C12: the generator produces exactly n_years education levels per person
\* (n_years period columns of n_people values each); the long table has
\* exactly n_people * n_years records, exactly one for every pair of a
\* person and a period and none besides, and that is the number of
\* outcome-noise variates drawn and added to the income column, so the
\* addition does not fail.
C12_OneRecordPerPair ==
    /\ pc = "reconstruct" =>
          /\ Cardinality(PeriodColumns) = n_years
          /\ \A c \in PeriodColumns : Len(people[c]) = n_people
    /\ pc \in {"melt", "error"} => error = NoError
    /\ Melted =>
          /\ Len(people_melted) = n_people * n_years
          /\ \A i \in Rows : \A y \in 1..n_years :
                Cardinality(RecordsOf(i, Years[y])) = 1
          /\ \A r \in 1..Len(people_melted) :
                /\ people_melted[r].person + 1 \in Rows
                /\ people_melted[r].year \in PeriodColumns
          /\ rng.pos - OutcomeNoiseAt(0) = Len(people_melted)
          /\ draw_log[Len(draw_log)] = "income"

\* C12 witness: the long table exists and holds records of two persons and
\* of two periods with different education levels.
C12_Witness ==
    /\ Melted
    /\ \E r, q \in 1..Len(people_melted) :
          /\ people_melted[r].person # people_melted[q].person
          /\ people_melted[r].year # people_melted[q].year
          /\ people_melted[r].education_level
                # people_melted[q].education_level

(* ========================= properties of the frame ==================== *)

\* The columns the generator cell creates.
GeneratedColumns == {"person", "ability", "1990", "1991", "1992"}

\* C13: a generated column of people (person, ability, 1990, 1991, 1992) is
\* never modified once it exists: every later step leaves its values as they
\* are and only adds columns; the long table, once built, is never modified,
\* and its records carry the person's generated ability and the person's
\* generated education level of the record's year.
C13_GeneratedNeverModified ==
    [][/\ \A c \in GeneratedColumns :
             c \in DOMAIN people =>
                 /\ c \in DOMAIN people'
                 /\ people'[c] = people[c]
       /\ DOMAIN people \subseteq DOMAIN people'
       /\ people_melted # << >> => people_melted' = people_melted
       /\ \A r \in 1..Len(people_melted') :
             LET rec == people_melted'[r]
             IN  /\ rec.person = people'["person"][rec.person + 1]
                 /\ rec.ability = people'["ability"][rec.person + 1]
                 /\ rec.education_level = people'[rec.year][rec.person + 1]
      ]_vars

\* C13 witness: every cell has run: people holds the derived columns next
\* to the generated ones, the long table holds the income, and some
\* education level is positive.
C13_Witness ==
    /\ pc = "done"
    /\ {"pca", "factor", "noise"} \subseteq DOMAIN people
    /\ Len(stdout) = Len(Models)
    /\ \E r \in 1..Len(people_melted) :
          /\ people_melted[r].education_level > 0
          /\ people_melted[r].income > true_intercept

(* ===================== properties of the execution ==================== *)

\* The statements and cells of the notebook from top to bottom, as values
\* of pc: generate (seed .. noise), reshape (melt), fit and report (fit_a ..
\* fit_f), end.
CellOrder ==
    <<"seed", "people", "1990", "1991", "1992", "reconstruct", "noise",
      "melt", "fit_a", "fit_b", "fit_c", "fit_d", "fit_e", "fit_f", "done">>

Rank(p) == CHOOSE k \in DOMAIN CellOrder : CellOrder[k] = p

\* The number of regression cells that have run when control is at p.
FitsBefore(p) ==
    IF Rank(p) > Rank("fit_a") THEN Rank(p) - Rank("fit_a") ELSE 0

\* The long table is complete: one record per person and period column,
\* each with its income.
TableComplete ==
    /\ Len(people_melted) = n_people * Len(Years)
    /\ \A r \in 1..Len(people_melted) : "income" \in DOMAIN people_melted[r]

====
